---- MODULE Spec2Model ----
(***************************************************************************)
(* Model of the terminal portfolio's navigation and session lifecycle      *)
(* core: the SessionManager of src/utils/sessionManager.ts, the keyboard   *)
(* navigation hook useKeyboardNavigation and the App component that wires  *)
(* the hook to the batched state updater.                                  *)
(*                                                                         *)
(* Time is a global millisecond-like clock `now`; Date reads and           *)
(* setTimeout deadlines are taken from it.  Timer callbacks run at or      *)
(* after their deadline, one at a time, like every other handler.          *)
(***************************************************************************)
EXTENDS Integers, Sequences, FiniteSets, TLC

\* ------------------------------------------------------------------ bounds
MaxTime == 3
MaxHistory == 2
MaxPending == 2
MaxInstances == 3
MaxResizes == 3

\* ------------------------------------------------------- absent values
Undefined == "undefined"
NoTime == 0 - 1
NoSize == << >>
NoReason == "none"
NoThrow == "returned"

VARIABLES
    sessions,        \* Map<string, SessionInfo> in insertion order
    cleanupTimers,   \* Map<string, Timeout>: id -> timer handle
    pendingTimers,   \* timers the runtime still has scheduled
    isShuttingDown,
    options,         \* [maxSessions, sessionTimeout]
    now,             \* the clock
    history,         \* per id: the events a subscriber has observed
    emitted,         \* events emitted by the latest handler, in order
    lastCall,        \* the latest operation, its arguments and outcome
    currentSection,  \* App: appState.currentSection as last rendered
    pendingUpdates,  \* App: updaters queued in createBatchedUpdater
    exitStatus,      \* App: "running" or the status given to process.exit
    lastKey,         \* App: the latest key event
    sectionChanges,  \* App: onSectionChange calls of the latest key event
    navRun,          \* hook: the present run of navigateToSection calls
    completed,       \* a subscriber's tally of the sessionEnded events
    globalSessionManager,  \* the module-level instance, or NoManager
    resizeHook       \* useTerminalResize: its state, stdout and its timer

managerVars == << sessions, cleanupTimers, pendingTimers, isShuttingDown,
                  options, now, history, emitted, lastCall >>

appVars == << currentSection, pendingUpdates, exitStatus, lastKey,
              sectionChanges, navRun, completed, globalSessionManager,
              resizeHook >>

auxVars == << completed, globalSessionManager, resizeHook >>

keyVars == << currentSection, pendingUpdates, exitStatus, lastKey,
              sectionChanges, navRun >>

vars == << sessions, cleanupTimers, pendingTimers, isShuttingDown, options,
           now, history, emitted, lastCall, currentSection, pendingUpdates,
           exitStatus, lastKey, sectionChanges, navRun, completed,
           globalSessionManager, resizeHook >>

\* ------------------------------------------------------------ Map helpers
MapPut(f, k, v) == [x \in (DOMAIN f) \cup {k} |-> IF x = k THEN v ELSE f[x]]

MapRemove(f, k) == [x \in (DOMAIN f) \ {k} |-> f[x]]

IndexOfId(seq, id) ==
    IF \E i \in 1..Len(seq) : seq[i].id = id
    THEN CHOOSE i \in 1..Len(seq) : seq[i].id = id
    ELSE 0

HasSession(seq, id) == IndexOfId(seq, id) # 0

\* Map.set: an existing key keeps its position, a new key goes last
SessionsSet(seq, session) ==
    IF HasSession(seq, session.id)
    THEN [seq EXCEPT ![IndexOfId(seq, session.id)] = session]
    ELSE Append(seq, session)

\* Map.delete
SessionsDelete(seq, id) ==
    SelectSeq(seq, LAMBDA s : s.id # id)

\* ------------------------------------------------------------ SessionInfo
NoSession ==
    [ id |-> Undefined, startTime |-> NoTime, endTime |-> NoTime,
      terminalSize |-> NoSize, sectionsVisited |-> << >>,
      lastActivity |-> NoTime ]

Event(type, session, reason, duration) ==
    [ type |-> type, id |-> session.id, session |-> session,
      reason |-> reason, duration |-> duration ]

\* the part of the manager the methods read and write
Manager ==
    [ sessions |-> sessions, cleanupTimers |-> cleanupTimers,
      pendingTimers |-> pendingTimers, emitted |-> << >> ]

getSession(m, sessionId) ==
    IF HasSession(m.sessions, sessionId)
    THEN m.sessions[IndexOfId(m.sessions, sessionId)]
    ELSE NoSession

\* generateSessionId: timestamp plus random suffix, an id not seen before
generateSessionId(pool, seen) ==
    LET unseen == SelectSeq(pool, LAMBDA id : id \notin seen)
    IN  IF unseen = << >> THEN Undefined ELSE Head(unseen)

\* ----------------------------------------------------------------- timers
\* setupSessionTimeout that clears the old timer and schedules no new one
setupSessionTimeout_ClearOnly(m, sessionId, t, sessionTimeout) ==
    LET cleared == IF sessionId \in DOMAIN m.cleanupTimers
                   THEN m.pendingTimers \ {m.cleanupTimers[sessionId]}
                   ELSE m.pendingTimers
    IN  [ m EXCEPT !.pendingTimers = cleared,
                   !.cleanupTimers = [ k \in (DOMAIN @) \ {sessionId} |-> @[k] ] ]

\* setupSessionTimeout that leaves the old timer scheduled
setupSessionTimeout_NoClear(m, sessionId, t, sessionTimeout) ==
    LET timer == [ id |-> sessionId, deadline |-> t + sessionTimeout ]
    IN  [ m EXCEPT !.pendingTimers = @ \cup {timer},
                   !.cleanupTimers = [ x \in (DOMAIN @) \cup {sessionId} |->
                                          IF x = sessionId THEN timer ELSE @[x] ] ]

setupSessionTimeout(m, sessionId, t, sessionTimeout) ==
    LET cleared == IF sessionId \in DOMAIN m.cleanupTimers
                   THEN m.pendingTimers \ {m.cleanupTimers[sessionId]}
                   ELSE m.pendingTimers
        timer == [ id |-> sessionId, deadline |-> t + sessionTimeout ]
    IN  [ m EXCEPT !.pendingTimers = cleared \cup {timer},
                   !.cleanupTimers = MapPut(@, sessionId, timer) ]

\* endSession that forgets to clear the session's timer
endSession_KeepTimer(m, sessionId, reason, t) ==
    IF ~HasSession(m.sessions, sessionId)
    THEN m
    ELSE LET old == m.sessions[IndexOfId(m.sessions, sessionId)]
             session == [ old EXCEPT !.endTime = t ]
             duration == session.endTime - session.startTime
         IN  [ sessions |-> SessionsDelete(m.sessions, sessionId),
               cleanupTimers |-> m.cleanupTimers,
               pendingTimers |-> m.pendingTimers,
               emitted |-> Append(m.emitted,
                                  Event("sessionEnded", session, reason, duration)) ]

endSession(m, sessionId, reason, t) ==
    IF ~HasSession(m.sessions, sessionId)
    THEN m
    ELSE LET session == [ getSession(m, sessionId) EXCEPT !.endTime = t ]
             duration == session.endTime - session.startTime
             hasTimer == sessionId \in DOMAIN m.cleanupTimers
         IN  [ sessions |-> SessionsDelete(m.sessions, sessionId),
               cleanupTimers |-> IF hasTimer
                                 THEN MapRemove(m.cleanupTimers, sessionId)
                                 ELSE m.cleanupTimers,
               pendingTimers |-> IF hasTimer
                                 THEN m.pendingTimers \ {m.cleanupTimers[sessionId]}
                                 ELSE m.pendingTimers,
               emitted |-> Append(m.emitted,
                                  Event("sessionEnded", session, reason, duration)) ]

RECURSIVE EndAll(_, _, _, _)
\* ids.forEach(id => this.endSession(id, reason))
EndAll(m, ids, reason, t) ==
    IF ids = << >>
    THEN m
    ELSE EndAll(endSession(m, Head(ids), reason, t), Tail(ids), reason, t)

\* ------------------------------------------------- cleanupOldestSessions
\* Array.prototype.sort is stable: equal lastActivity keeps insertion order
InsertByLastActivity(sorted, s) ==
    LET k == Cardinality({ i \in 1..Len(sorted) :
                             sorted[i].lastActivity <= s.lastActivity })
    IN  SubSeq(sorted, 1, k) \o << s >> \o SubSeq(sorted, k + 1, Len(sorted))

RECURSIVE SortByLastActivity(_)
SortByLastActivity(seq) ==
    IF seq = << >>
    THEN << >>
    ELSE InsertByLastActivity(SortByLastActivity(SubSeq(seq, 1, Len(seq) - 1)),
                              seq[Len(seq)])

Slice(seq, count) ==
    SubSeq(seq, 1, IF count < Len(seq) THEN count ELSE Len(seq))

\* cleanupOldestSessions without the sort: the first `count` inserted
cleanupOldestSessions_InsertionOrder(m, count, t) ==
    LET oldest == Slice(m.sessions, count)
        ids == [ i \in 1..Len(oldest) |-> oldest[i].id ]
    IN  EndAll(m, ids, "timeout", t)

cleanupOldestSessions(m, count, t) ==
    LET oldest == Slice(SortByLastActivity(m.sessions), count)
        ids == [ i \in 1..Len(oldest) |-> oldest[i].id ]
    IN  EndAll(m, ids, "timeout", t)

\* ----------------------------------------------------------- createSession
\* createSession that always generates the id and ignores its argument
createSession_IgnoresArgument(m, sessionId, fresh, t0, t1, opts) ==
    LET id == fresh
        m1 == IF Len(m.sessions) >= opts.maxSessions
              THEN cleanupOldestSessions(m, opts.maxSessions \div 10, t0)
              ELSE m
        session == [ id |-> id, startTime |-> t0, endTime |-> NoTime,
                     terminalSize |-> NoSize, sectionsVisited |-> << >>,
                     lastActivity |-> t1 ]
        m2 == [ m1 EXCEPT !.sessions = SessionsSet(@, session) ]
        m3 == setupSessionTimeout(m2, id, t1, opts.sessionTimeout)
    IN  [ m3 EXCEPT !.emitted =
              Append(@, Event("sessionCreated", session, NoReason, NoTime)) ]

\* t0 and t1 are the two Date reads of the constructor of the record
createSession(m, sessionId, fresh, t0, t1, opts) ==
    LET id == IF sessionId \in {Undefined, ""} THEN fresh ELSE sessionId
        m1 == IF Len(m.sessions) >= opts.maxSessions
              THEN cleanupOldestSessions(m, opts.maxSessions \div 10, t0)
              ELSE m
        session == [ id |-> id, startTime |-> t0, endTime |-> NoTime,
                     terminalSize |-> NoSize, sectionsVisited |-> << >>,
                     lastActivity |-> t1 ]
        m2 == [ m1 EXCEPT !.sessions = SessionsSet(@, session) ]
        m3 == setupSessionTimeout(m2, id, t1, opts.sessionTimeout)
    IN  [ m3 EXCEPT !.emitted =
              Append(@, Event("sessionCreated", session, NoReason, NoTime)) ]

\* ---------------------------------------------------------- updateActivity
\* includes that looks at the last element only
Includes_LastOnly(seq, x) == seq # << >> /\ seq[Len(seq)] = x

Includes(seq, x) == \E i \in 1..Len(seq) : seq[i] = x

\* updateActivity that starts a record for an id it does not know
updateActivity_Upsert(m, sessionId, section, t, opts) ==
    LET old == IF HasSession(m.sessions, sessionId)
               THEN getSession(m, sessionId)
               ELSE [ NoSession EXCEPT !.id = sessionId, !.startTime = t ]
        visited == IF section \notin {Undefined, ""}
                      /\ ~Includes(old.sectionsVisited, section)
                   THEN Append(old.sectionsVisited, section)
                   ELSE old.sectionsVisited
        session == [ old EXCEPT !.lastActivity = t,
                                !.sectionsVisited = visited ]
        m1 == [ m EXCEPT !.sessions = SessionsSet(@, session) ]
        m2 == setupSessionTimeout(m1, sessionId, t, opts.sessionTimeout)
    IN  [ m2 EXCEPT !.emitted =
              Append(@, Event("sessionActivity", session, NoReason, NoTime)) ]

updateActivity(m, sessionId, section, t, opts) ==
    IF ~HasSession(m.sessions, sessionId)
    THEN m
    ELSE LET old == getSession(m, sessionId)
             visited == IF section \notin {Undefined, ""}
                           /\ ~Includes(old.sectionsVisited, section)
                        THEN Append(old.sectionsVisited, section)
                        ELSE old.sectionsVisited
             session == [ old EXCEPT !.lastActivity = t,
                                     !.sectionsVisited = visited ]
             m1 == [ m EXCEPT !.sessions = SessionsSet(@, session) ]
             m2 == setupSessionTimeout(m1, sessionId, t, opts.sessionTimeout)
         IN  [ m2 EXCEPT !.emitted =
                   Append(@, Event("sessionActivity", session, NoReason, NoTime)) ]

updateTerminalSize(m, sessionId, size, t, opts) ==
    IF ~HasSession(m.sessions, sessionId)
    THEN m
    ELSE LET session == [ getSession(m, sessionId) EXCEPT !.terminalSize = size ]
             m1 == [ m EXCEPT !.sessions = SessionsSet(@, session) ]
         IN  updateActivity(m1, sessionId, Undefined, t, opts)

\* ---------------------------------------------------------------- shutdown
\* shutdown that clears the timers of the map and ends no session
shutdown_TimersOnly(m, t) ==
    LET handles == { m.cleanupTimers[k] : k \in DOMAIN m.cleanupTimers }
    IN  [ m EXCEPT !.pendingTimers = @ \ handles,
                   !.cleanupTimers = << >>,
                   !.emitted = Append(@, Event("shutdown", NoSession,
                                               NoReason, NoTime)) ]

shutdown(m, t) ==
    LET sessionIds == [ i \in 1..Len(m.sessions) |-> m.sessions[i].id ]
        m1 == EndAll(m, sessionIds, "shutdown", t)
        handles == { m1.cleanupTimers[k] : k \in DOMAIN m1.cleanupTimers }
    IN  [ m1 EXCEPT !.pendingTimers = @ \ handles,
                    !.cleanupTimers = << >>,
                    !.emitted = Append(@, Event("shutdown", NoSession,
                                                NoReason, NoTime)) ]

\* ----------------------------------------------------------------- getStats
\* the clock of the model counts seconds; Date.getTime() counts milliseconds
MsPerSecond == 1000

\* Math.round of the quotient num / den of two non-negative numbers
Round(num, den) == (2 * num + den) \div (2 * den)

RECURSIVE SumDurations(_)
\* reduce((sum, s) => sum + (s.endTime.getTime() - s.startTime.getTime()), 0)
SumDurations(seq) ==
    IF seq = << >>
    THEN 0
    ELSE (Head(seq).endTime - Head(seq).startTime) * MsPerSecond
         + SumDurations(Tail(seq))

RECURSIVE AllVisits(_)
\* the sections in the order the two nested forEach loops meet them
AllVisits(seq) ==
    IF seq = << >>
    THEN << >>
    ELSE Head(seq).sectionsVisited \o AllVisits(Tail(seq))

\* sectionCounts.set(section, (sectionCounts.get(section) || 0) + 1): a Map
\* keeps its keys in the order of their first insertion
CountVisit(counts, section) ==
    IF \E i \in 1..Len(counts) : counts[i].section = section
    THEN [ i \in 1..Len(counts) |->
             IF counts[i].section = section
             THEN [ counts[i] EXCEPT !.count = @ + 1 ]
             ELSE counts[i] ]
    ELSE Append(counts, [ section |-> section, count |-> 1 ])

RECURSIVE CountVisits(_, _)
CountVisits(counts, visits) ==
    IF visits = << >>
    THEN counts
    ELSE CountVisits(CountVisit(counts, Head(visits)), Tail(visits))

\* sort((a, b) => b.count - a.count): stable, equal counts keep their order
InsertByCount(sorted, e) ==
    LET k == Cardinality({ i \in 1..Len(sorted) : sorted[i].count >= e.count })
    IN  SubSeq(sorted, 1, k) \o << e >> \o SubSeq(sorted, k + 1, Len(sorted))

RECURSIVE SortByCount(_)
SortByCount(seq) ==
    IF seq = << >>
    THEN << >>
    ELSE InsertByCount(SortByCount(SubSeq(seq, 1, Len(seq) - 1)),
                       seq[Len(seq)])

\* getStats without the sort: the sections in the order of their first visit
getStats_Unsorted(seq) ==
    LET allSessions == seq
        completedSessions ==
            SelectSeq(allSessions, LAMBDA s : s.endTime # NoTime)
        sectionCounts == CountVisits(<< >>, AllVisits(allSessions))
    IN  [ activeSessions |-> Len(seq),
          totalSessions |-> Len(allSessions),
          averageSessionDuration |->
              IF Len(completedSessions) > 0
              THEN Round(SumDurations(completedSessions),
                         Len(completedSessions) * 1000)
              ELSE 0,
          mostVisitedSections |-> Slice(sectionCounts, 5) ]

\* getStats reads the sessions Map only: allSessions are its values
getStats(seq) ==
    LET allSessions == seq
        completedSessions ==
            SelectSeq(allSessions, LAMBDA s : s.endTime # NoTime)
        sectionCounts == CountVisits(<< >>, AllVisits(allSessions))
    IN  [ activeSessions |-> Len(seq),
          totalSessions |-> Len(allSessions),
          averageSessionDuration |->
              IF Len(completedSessions) > 0
              THEN Round(SumDurations(completedSessions),
                         Len(completedSessions) * 1000)
              ELSE 0,
          mostVisitedSections |-> Slice(SortByCount(sectionCounts), 5) ]

\* ------------------------------------------------ what subscribers observe
HistoryOf(h, id) == IF id \in DOMAIN h THEN h[id] ELSE << >>

RECURSIVE Observe(_, _)
Observe(h, events) ==
    IF events = << >>
    THEN h
    ELSE LET e == Head(events)
             h1 == IF e.id = Undefined
                   THEN h
                   ELSE MapPut(h, e.id,
                               Append(HistoryOf(h, e.id),
                                      [ type |-> e.type, reason |-> e.reason ]))
         IN  Observe(h1, Tail(events))

RECURSIVE Tally(_, _)
\* a subscriber of sessionEnded that counts the sessions that ended and adds
\* up endTime - startTime of each, in milliseconds
Tally(c, events) ==
    IF events = << >>
    THEN c
    ELSE LET e == Head(events)
             c1 == IF e.type = "sessionEnded"
                   THEN [ count |-> c.count + 1,
                          sum |-> c.sum + (e.session.endTime
                                           - e.session.startTime) * MsPerSecond ]
                   ELSE c
         IN  Tally(c1, Tail(events))

Call(op, id, arg, size, threw) ==
    [ op |-> op, id |-> id, arg |-> arg, size |-> size, threw |-> threw ]

Commit(m, call) ==
    /\ sessions' = m.sessions
    /\ cleanupTimers' = m.cleanupTimers
    /\ pendingTimers' = m.pendingTimers
    /\ emitted' = m.emitted
    /\ lastCall' = call

\* ------------------------------------------------- useKeyboardNavigation
sections == << "home", "about", "experience", "skills", "projects", "contact" >>

\* Array.prototype.indexOf: zero-based, -1 when absent
indexOf(seq, x) ==
    IF \E i \in 1..Len(seq) : seq[i] = x
    THEN (CHOOSE i \in 1..Len(seq) : seq[i] = x /\ \A j \in 1..(i - 1) : seq[j] # x) - 1
    ELSE 0 - 1

\* seq[i] with a zero-based index: undefined outside the array
At(seq, i) == IF i >= 0 /\ i < Len(seq) THEN seq[i + 1] ELSE Undefined

\* sectionMap with the keys counted from zero
sectionMap_FromZero(number) ==
    CASE number = "1" -> "about"
      [] number = "2" -> "experience"
      [] number = "3" -> "skills"
      [] number = "4" -> "projects"
      [] number = "5" -> "contact"
      [] OTHER -> Undefined

\* sectionMap without its last entry
sectionMap_FiveSections(number) ==
    CASE number = "1" -> "home"
      [] number = "2" -> "about"
      [] number = "3" -> "experience"
      [] number = "4" -> "skills"
      [] number = "5" -> "projects"
      [] OTHER -> Undefined

sectionMap(number) ==
    CASE number = "1" -> "home"
      [] number = "2" -> "about"
      [] number = "3" -> "experience"
      [] number = "4" -> "skills"
      [] number = "5" -> "projects"
      [] number = "6" -> "contact"
      [] OTHER -> Undefined

\* a comparison of the raw input, without toLowerCase
toLowerCase_Identity(input) == input

\* String.prototype.toLowerCase on the key inputs of the model
toLowerCase(input) ==
    CASE input = "H" -> "h"
      [] input = "J" -> "j"
      [] input = "K" -> "k"
      [] input = "L" -> "l"
      [] input = "G" -> "g"
      [] input = "Q" -> "q"
      [] input = "C" -> "c"
      [] input = "X" -> "x"
      [] OTHER -> input

\* navigateToSection without the wrap at either end of the list
navigateToSection_NoWrap(direction, current) ==
    LET currentIndex == indexOf(sections, current)
        newIndex == IF direction = "next"
                    THEN currentIndex + 1
                    ELSE currentIndex - 1
        newSection == At(sections, newIndex)
    IN  IF newSection # current THEN << newSection >> ELSE << >>

\* navigateToSection with the two directions exchanged
navigateToSection_Reversed(direction, current) ==
    LET currentIndex == indexOf(sections, current)
        newIndex == IF direction = "prev"
                    THEN IF currentIndex < Len(sections) - 1
                         THEN currentIndex + 1 ELSE 0
                    ELSE IF currentIndex > 0
                         THEN currentIndex - 1 ELSE Len(sections) - 1
        newSection == At(sections, newIndex)
    IN  IF newSection # current THEN << newSection >> ELSE << >>

\* navigateToSection that stops at either end of the list
navigateToSection_StopAtEnd(direction, current) ==
    LET currentIndex == indexOf(sections, current)
        newIndex == IF direction = "next"
                    THEN IF currentIndex < Len(sections) - 1
                         THEN currentIndex + 1 ELSE currentIndex
                    ELSE IF currentIndex > 0
                         THEN currentIndex - 1 ELSE currentIndex
        newSection == At(sections, newIndex)
    IN  IF newSection # current THEN << newSection >> ELSE << >>

\* the calls of onSectionChange a navigation function makes, in order
navigateToSection(direction, current) ==
    LET currentIndex == indexOf(sections, current)
        newIndex == IF direction = "next"
                    THEN IF currentIndex < Len(sections) - 1
                         THEN currentIndex + 1 ELSE 0
                    ELSE IF currentIndex > 0
                         THEN currentIndex - 1 ELSE Len(sections) - 1
        newSection == At(sections, newIndex)
    IN  IF newSection # current THEN << newSection >> ELSE << >>

\* navigateToSectionByNumber without the comparison with the current section
navigateToSectionByNumber_NoCheck(number, current) ==
    LET targetSection == sectionMap(number)
    IN  IF targetSection # Undefined
        THEN << targetSection >>
        ELSE << >>

navigateToSectionByNumber(number, current) ==
    LET targetSection == sectionMap(number)
    IN  IF targetSection # Undefined /\ targetSection # current
        THEN << targetSection >>
        ELSE << >>

\* handleInput whose exit rule compares the lower-cased input with 'q'
handleInput_ExitAnyCase(input, key, current) ==
    IF key.escape \/ toLowerCase(input) = "q" \/ (key.ctrl /\ input = "c")
    THEN [ exit |-> TRUE, calls |-> << >>, direction |-> "none" ]
    ELSE IF input \in { "1", "2", "3", "4", "5", "6" }
    THEN [ exit |-> FALSE, calls |-> navigateToSectionByNumber(input, current),
           direction |-> "none" ]
    ELSE IF key.upArrow \/ key.leftArrow
    THEN [ exit |-> FALSE, calls |-> navigateToSection("prev", current),
           direction |-> "prev" ]
    ELSE IF key.downArrow \/ key.rightArrow
    THEN [ exit |-> FALSE, calls |-> navigateToSection("next", current),
           direction |-> "next" ]
    ELSE LET lowerInput == toLowerCase(input)
             direction == CASE lowerInput \in { "h", "k" } -> "prev"
                            [] lowerInput \in { "l", "j" } -> "next"
                            [] OTHER -> "none"
             vim == CASE direction # "none" ->
                            navigateToSection(direction, current)
                      [] lowerInput = "g" ->
                            IF current # "home" THEN << "home" >> ELSE << >>
                      [] OTHER -> << >>
             capitalG == IF input = "G" /\ current # "contact"
                         THEN << "contact" >> ELSE << >>
         IN  [ exit |-> FALSE, calls |-> vim \o capitalG,
               direction |-> direction ]

\* handleInput: whether handleExit ran, the onSectionChange calls made, and
\* the direction given to navigateToSection ("none" when it was not called)
handleInput(input, key, current) ==
    IF key.escape \/ input = "q" \/ (key.ctrl /\ input = "c")
    THEN [ exit |-> TRUE, calls |-> << >>, direction |-> "none" ]
    ELSE IF input \in { "1", "2", "3", "4", "5", "6" }
    THEN [ exit |-> FALSE, calls |-> navigateToSectionByNumber(input, current),
           direction |-> "none" ]
    ELSE IF key.upArrow \/ key.leftArrow
    THEN [ exit |-> FALSE, calls |-> navigateToSection("prev", current),
           direction |-> "prev" ]
    ELSE IF key.downArrow \/ key.rightArrow
    THEN [ exit |-> FALSE, calls |-> navigateToSection("next", current),
           direction |-> "next" ]
    ELSE LET lowerInput == toLowerCase(input)
             direction == CASE lowerInput \in { "h", "k" } -> "prev"
                            [] lowerInput \in { "l", "j" } -> "next"
                            [] OTHER -> "none"
             vim == CASE direction # "none" ->
                            navigateToSection(direction, current)
                      [] lowerInput = "g" ->
                            IF current # "home" THEN << "home" >> ELSE << >>
                      [] OTHER -> << >>
             capitalG == IF input = "G" /\ current # "contact"
                         THEN << "contact" >> ELSE << >>
         IN  [ exit |-> FALSE, calls |-> vim \o capitalG,
               direction |-> direction ]

\* ------------------------------------------------------------------- App
\* the updater handleSectionChange hands to batchedSetAppState
SectionUpdater(prev, section) == IF prev = section THEN prev ELSE section

RECURSIVE flushUpdates(_, _)
\* updates.reduce((current, update) => update(current), prev)
flushUpdates(prev, updates) ==
    IF updates = << >>
    THEN prev
    ELSE flushUpdates(SectionUpdater(prev, Head(updates)), Tail(updates))

RECURSIVE UpdateActivities(_, _, _, _, _)
\* handleSectionChange calls updateActivity(section) once per call
UpdateActivities(m, sessionId, calls, t, opts) ==
    IF calls = << >>
    THEN m
    ELSE UpdateActivities(updateActivity(m, sessionId, Head(calls), t, opts),
                          sessionId, Tail(calls), t, opts)

\* ------------------------------------------------------------------ inputs
GeneratedIds == << "session_1" >>
ExplicitIds == { "custom" }
SizeInputs == { << 120, 40 >> }
EndReasons == { "disconnect", "error" }
MaxSessionsChoices == { 1 }
SessionTimeoutChoices == { 2 }
ClockSkew == { 0, 1 }

Range(seq) == { seq[i] : i \in 1..Len(seq) }

KnownIds == ExplicitIds \cup Range(GeneratedIds)

\* -------------------------------------------------------------------- Init
InitManager ==
    /\ sessions = << >>
    /\ cleanupTimers = << >>
    /\ pendingTimers = {}
    /\ isShuttingDown = FALSE
    /\ now = 0
    /\ history = << >>
    /\ emitted = << >>
    /\ lastCall = Call("constructor", Undefined, Undefined, NoSize, NoThrow)

NoKey == [ input |-> "", escape |-> FALSE, ctrl |-> FALSE, upArrow |-> FALSE,
           downArrow |-> FALSE, leftArrow |-> FALSE, rightArrow |-> FALSE ]

\* no navigateToSection call has been made yet
NoRun == [ start |-> Undefined, direction |-> "none", count |-> 0 ]

InitialDimensions == << 80, 24 >>

\* no sessionEnded event has been seen
NoneCompleted == [ count |-> 0, sum |-> 0 ]

\* an option the caller left out
NoOption == 0 - 1
NoOptions == [ maxSessions |-> NoOption, sessionTimeout |-> NoOption ]

\* let globalSessionManager: SessionManager | null = null
NoManager == [ instance |-> 0, options |-> NoOptions ]

\* new SessionManager(options): an object no earlier `new` has returned, the
\* instance-th the module has constructed, with the defaults filled in
NewSessionManager(opts, instance) ==
    [ instance |-> instance,
      options |-> [ maxSessions |-> IF opts.maxSessions = NoOption
                                    THEN 100
                                    ELSE opts.maxSessions,
                    sessionTimeout |-> IF opts.sessionTimeout = NoOption
                                       THEN 30 * 60 * 1000
                                       ELSE opts.sessionTimeout ] ]

\* getSessionManager that constructs an instance on every call
getSessionManager_AlwaysNew(global, opts) ==
    NewSessionManager(opts, global.instance + 1)

getSessionManager(global, opts) ==
    IF global = NoManager
    THEN NewSessionManager(opts, global.instance + 1)
    ELSE global

initializeSessionManager(global, opts) ==
    NewSessionManager(opts, global.instance + 1)

\* capabilities.minWidth and minHeight of detectTerminalCapabilities
MinDimensions == << 60, 20 >>

Max(a, b) == IF a >= b THEN a ELSE b

\* validateTerminalDimensions: 0 columns or rows read as 80 or 24, and
\* nothing below the minimum
validateTerminalDimensions(size) ==
    << Max(IF size[1] = 0 THEN 80 ELSE size[1], MinDimensions[1]),
       Max(IF size[2] = 0 THEN 24 ELSE size[2], MinDimensions[2]) >>

\* useTerminalResize after its first render on an 80 x 24 terminal: the
\* listener is registered, no debounce timer is pending, nothing to render.
\* stdout is the size the terminal has, rendered the dimensions the last
\* render returned, timeoutId whether the timer of the effect is pending
InitResizeHook ==
    [ stdout |-> InitialDimensions,
      dimensions |-> validateTerminalDimensions(InitialDimensions),
      rendered |-> validateTerminalDimensions(InitialDimensions),
      isResizing |-> FALSE,
      timeoutId |-> FALSE,
      renderPending |-> FALSE,
      resizeEvents |-> 0 ]

InitAux ==
    /\ completed = NoneCompleted
    /\ globalSessionManager = NoManager
    /\ resizeHook = InitResizeHook

InitApp ==
    /\ currentSection = "home"
    /\ pendingUpdates = << >>
    /\ exitStatus = "running"
    /\ lastKey = NoKey
    /\ sectionChanges = << >>
    /\ navRun = NoRun
    /\ InitAux

Init ==
    /\ InitManager
    /\ InitApp
    /\ options \in [ maxSessions : MaxSessionsChoices,
                     sessionTimeout : SessionTimeoutChoices ]

\* a subscriber registered with manager.on(...) for the three session events
Subscribed == history' = Observe(history, emitted')

HistoryRoom(id) == Len(HistoryOf(history, id)) < MaxHistory

\* --------------------------------------------------------- manager actions
\* createSession without the isShuttingDown check
CreateSession_IgnoresShutdown(sessionId, pool, skew) ==
    LET usesFresh == sessionId \in {Undefined, ""}
        fresh == generateSessionId(pool, DOMAIN history)
        id == IF usesFresh THEN fresh ELSE sessionId
    IN  /\ id # Undefined
        /\ HistoryRoom(id)
        /\ now + skew <= MaxTime
        /\ Commit(createSession(Manager, sessionId, fresh, now, now + skew,
                                options),
                  Call("createSession", sessionId, id, NoSize, NoThrow))
        /\ now' = now + skew
        /\ UNCHANGED << isShuttingDown, options >>

CreateSession(sessionId, pool, skew) ==
    LET usesFresh == sessionId \in {Undefined, ""}
        fresh == generateSessionId(pool, DOMAIN history)
        id == IF usesFresh THEN fresh ELSE sessionId
    IN  IF isShuttingDown
        THEN /\ lastCall' = Call("createSession", sessionId, Undefined, NoSize,
                                 "Session manager is shutting down")
             /\ emitted' = << >>
             /\ UNCHANGED << sessions, cleanupTimers, pendingTimers,
                             isShuttingDown, options, now >>
        ELSE /\ id # Undefined
             /\ HistoryRoom(id)
             /\ now + skew <= MaxTime
             /\ Commit(createSession(Manager, sessionId, fresh, now, now + skew,
                                     options),
                       Call("createSession", sessionId, id, NoSize, NoThrow))
             /\ now' = now + skew
             /\ UNCHANGED << isShuttingDown, options >>

UpdateActivity(sessionId, section) ==
    /\ HasSession(sessions, sessionId) => HistoryRoom(sessionId)
    /\ Commit(updateActivity(Manager, sessionId, section, now, options),
              Call("updateActivity", sessionId, section, NoSize, NoThrow))
    /\ UNCHANGED << isShuttingDown, options, now >>

UpdateTerminalSize(sessionId, size) ==
    /\ HasSession(sessions, sessionId) => HistoryRoom(sessionId)
    /\ Commit(updateTerminalSize(Manager, sessionId, size, now, options),
              Call("updateTerminalSize", sessionId, Undefined, size, NoThrow))
    /\ UNCHANGED << isShuttingDown, options, now >>

EndSession(sessionId, reason) ==
    /\ Commit(endSession(Manager, sessionId, reason, now),
              Call("endSession", sessionId, reason, NoSize, NoThrow))
    /\ UNCHANGED << isShuttingDown, options, now >>

\* the setTimeout callback of setupSessionTimeout
SessionTimeoutFires(timer) ==
    /\ timer \in pendingTimers
    /\ now >= timer.deadline
    /\ Commit(endSession([ Manager EXCEPT !.pendingTimers = @ \ {timer} ],
                         timer.id, "timeout", now),
              Call("timeout", timer.id, "timeout", NoSize, NoThrow))
    /\ UNCHANGED << isShuttingDown, options, now >>

Shutdown ==
    /\ isShuttingDown' = TRUE
    /\ Commit(shutdown(Manager, now),
              Call("shutdown", Undefined, Undefined, NoSize, NoThrow))
    /\ UNCHANGED << options, now >>

Tick ==
    /\ now < MaxTime
    /\ now' = now + 1
    /\ UNCHANGED << sessions, cleanupTimers, pendingTimers, isShuttingDown,
                    options, history, emitted, lastCall >>

\* ------------------------------------------- the tracker with a subscriber
TimeoutStep ==
    \E timer \in pendingTimers :
        SessionTimeoutFires(timer) /\ Subscribed /\ UNCHANGED appVars

Next ==
    \/ \E sessionId \in ExplicitIds \cup {Undefined}, skew \in ClockSkew :
           CreateSession(sessionId, GeneratedIds, skew) /\ Subscribed
              /\ UNCHANGED appVars
    \/ \E sessionId \in KnownIds :
           UpdateActivity(sessionId, Undefined) /\ Subscribed
              /\ UNCHANGED appVars
    \/ \E sessionId \in KnownIds, size \in SizeInputs :
           UpdateTerminalSize(sessionId, size) /\ Subscribed
              /\ UNCHANGED appVars
    \/ \E sessionId \in KnownIds, reason \in EndReasons :
           EndSession(sessionId, reason) /\ Subscribed /\ UNCHANGED appVars
    \/ TimeoutStep
    \/ Shutdown /\ Subscribed /\ UNCHANGED appVars
    \/ Tick /\ UNCHANGED appVars

Spec == Init /\ [][Next]_vars

\* ------------- sessions left to their idle timers: nobody ends them by hand
IdleNext ==
    \/ \E sessionId \in ExplicitIds \cup {Undefined} :
           CreateSession(sessionId, GeneratedIds, 0) /\ Subscribed
              /\ UNCHANGED appVars
    \/ \E sessionId \in KnownIds :
           UpdateActivity(sessionId, Undefined) /\ Subscribed
              /\ UNCHANGED appVars
    \/ \E sessionId \in KnownIds, size \in SizeInputs :
           UpdateTerminalSize(sessionId, size) /\ Subscribed
              /\ UNCHANGED appVars
    \/ TimeoutStep
    \/ Tick /\ UNCHANGED appVars

\* the event loop runs the callback of every timer whose delay has elapsed
IdleSpec == Init /\ [][IdleNext]_vars /\ WF_vars(TimeoutStep)

\* ------------------------------------------------------------ App actions
AppSessionId == "session_1"
AppOptions == [ maxSessions |-> 100, sessionTimeout |-> 30 * 60 * 1000 ]

Key(input) == [ NoKey EXCEPT !.input = input ]

AppKeys ==
    { Key(c) : c \in { "3", "k", "L", "g", "G", "q", "Q" } }
    \cup { [ NoKey EXCEPT !.leftArrow = TRUE ], [ NoKey EXCEPT !.rightArrow = TRUE ],
           [ NoKey EXCEPT !.ctrl = TRUE, !.input = "c" ],
           [ NoKey EXCEPT !.escape = TRUE ] }

\* the state once the App has mounted: useSession has created the session
\* and the first effect has reported the terminal size
InitMounted ==
    LET m0 == [ sessions |-> << >>, cleanupTimers |-> << >>,
                pendingTimers |-> {}, emitted |-> << >> ]
        m1 == createSession(m0, Undefined, AppSessionId, 0, 0, AppOptions)
        m2 == updateTerminalSize([ m1 EXCEPT !.emitted = << >> ], AppSessionId,
                                 InitialDimensions, 0, AppOptions)
    IN  /\ sessions = m2.sessions
        /\ cleanupTimers = m2.cleanupTimers
        /\ pendingTimers = m2.pendingTimers
        /\ emitted = m2.emitted
        /\ lastCall = Call("updateTerminalSize", AppSessionId, Undefined,
                           InitialDimensions, NoThrow)
        /\ isShuttingDown = FALSE
        /\ options = AppOptions
        /\ now = 0
        /\ history = << >>
        /\ InitApp

\* a key handler whose handleExit ends the process before it calls onExit
KeyPress_ExitBeforeOnExit(key) ==
    LET r == handleInput(key.input, key, currentSection)
    IN  /\ exitStatus = "running"
        /\ Len(pendingUpdates) < MaxPending
        /\ lastKey' = key
        /\ sectionChanges' = r.calls
        /\ UNCHANGED << currentSection, isShuttingDown, options, now, history,
                        navRun, auxVars >>
        /\ IF r.exit
           THEN /\ Commit(Manager, lastCall)
                /\ exitStatus' = "exit(0)"
                /\ UNCHANGED pendingUpdates
           ELSE /\ Commit(UpdateActivities(Manager, AppSessionId, r.calls, now,
                                           options),
                          IF r.calls = << >>
                          THEN lastCall
                          ELSE Call("updateActivity", AppSessionId,
                                    r.calls[Len(r.calls)], NoSize, NoThrow))
                /\ pendingUpdates' = pendingUpdates \o r.calls
                /\ UNCHANGED exitStatus

\* one key event delivered to the handler registered with useInput
KeyPress(key) ==
    LET r == handleInput(key.input, key, currentSection)
    IN  /\ exitStatus = "running"
        /\ Len(pendingUpdates) < MaxPending
        /\ lastKey' = key
        /\ sectionChanges' = r.calls
        /\ UNCHANGED << currentSection, isShuttingDown, options, now, history,
                        navRun, auxVars >>
        /\ IF r.exit
           THEN \* onExit: endSession('manual'), then process.exit(0)
                /\ Commit(endSession(Manager, AppSessionId, "manual", now),
                          Call("endSession", AppSessionId, "manual", NoSize,
                               NoThrow))
                /\ exitStatus' = "exit(0)"
                /\ UNCHANGED pendingUpdates
           ELSE /\ Commit(UpdateActivities(Manager, AppSessionId, r.calls, now,
                                           options),
                          IF r.calls = << >>
                          THEN lastCall
                          ELSE Call("updateActivity", AppSessionId,
                                    r.calls[Len(r.calls)], NoSize, NoThrow))
                /\ pendingUpdates' = pendingUpdates \o r.calls
                /\ UNCHANGED exitStatus

\* the 16 ms timer of createBatchedUpdater fires and the App re-renders
FlushUpdates ==
    /\ exitStatus = "running"
    /\ pendingUpdates # << >>
    /\ currentSection' = flushUpdates(currentSection, pendingUpdates)
    /\ pendingUpdates' = << >>
    /\ UNCHANGED << sessions, cleanupTimers, pendingTimers, isShuttingDown,
                    options, now, history, emitted, lastCall, exitStatus,
                    lastKey, sectionChanges, navRun, auxVars >>

AppNext ==
    \/ \E key \in AppKeys : KeyPress(key)
    \/ FlushUpdates

AppSpec == InitMounted /\ [][AppNext]_vars

\* ------------------------------ the App given keys that no rule matches
IgnoredInputs == { "", " ", "0", "7", "9", "x", "X", "C", "Q", "qq" }

IgnoreKeys ==
    { Key(c) : c \in IgnoredInputs \cup { "1" } }
    \cup { [ NoKey EXCEPT !.ctrl = TRUE, !.input = c ] : c \in { "", "x", "Q" } }
    \cup { [ NoKey EXCEPT !.rightArrow = TRUE ] }

IgnoreNext ==
    \/ \E key \in IgnoreKeys : KeyPress(key)
    \/ FlushUpdates

IgnoreSpec == InitMounted /\ [][IgnoreNext]_vars

\* ------------------------------------- the App on a terminal that resizes
ResizeSizes == { << 120, 40 >>, << 40, 10 >>, << 0, 0 >> }

\* stdout emits 'resize': handleResize sets isResizing, which schedules a
\* render, and restarts the debounce timer
ResizeEvent(size) ==
    /\ resizeHook.resizeEvents < MaxResizes
    /\ resizeHook' = [ resizeHook EXCEPT !.stdout = size,
                                         !.isResizing = TRUE,
                                         !.timeoutId = TRUE,
                                         !.renderPending = TRUE,
                                         !.resizeEvents = @ + 1 ]
    /\ UNCHANGED << managerVars, keyVars, completed, globalSessionManager >>

\* the App renders again: it passes new onResize and onError functions, so
\* updateDimensions is a new function and the resize effect runs again, its
\* cleanup first (clearTimeout and stdout.off); the App's effect on
\* dimensions reports a changed size to the session
Render ==
    /\ resizeHook.renderPending
    /\ resizeHook' = [ resizeHook EXCEPT !.timeoutId = FALSE,
                                         !.renderPending = FALSE,
                                         !.rendered = resizeHook.dimensions ]
    /\ IF resizeHook.dimensions # resizeHook.rendered
       THEN Commit(updateTerminalSize(Manager, AppSessionId,
                                      resizeHook.dimensions, now, options),
                   Call("updateTerminalSize", AppSessionId, Undefined,
                        resizeHook.dimensions, NoThrow))
       ELSE Commit(Manager, lastCall)
    /\ UNCHANGED << isShuttingDown, options, now, history, keyVars, completed,
                    globalSessionManager >>

\* the debounce timer fires: updateDimensions stores the validated size of
\* the terminal, clears isResizing and calls onResize, which sets App state
DebounceFires ==
    /\ resizeHook.timeoutId
    /\ resizeHook' =
           [ resizeHook EXCEPT
               !.dimensions = validateTerminalDimensions(resizeHook.stdout),
               !.isResizing = FALSE,
               !.timeoutId = FALSE,
               !.renderPending = TRUE ]
    /\ UNCHANGED << managerVars, keyVars, completed, globalSessionManager >>

ResizeNext ==
    \/ \E size \in ResizeSizes : ResizeEvent(size)
    \/ Render
    \/ DebounceFires

\* React runs a scheduled render and the event loop runs a pending timer
ResizeSpec ==
    InitMounted /\ [][ResizeNext]_vars /\ WF_vars(Render)
        /\ WF_vars(DebounceFires)

\* ------------------------- the hook alone, rendered by a stateful parent
HookInputs ==
    { "", "0", "1", "2", "3", "4", "5", "6", "9", "h", "H", "j", "J", "k", "K",
      "l", "L", "g", "G", "q", "Q", "c", "x" }

HookFlags ==
    { NoKey,
      [ NoKey EXCEPT !.escape = TRUE ],
      [ NoKey EXCEPT !.ctrl = TRUE ],
      [ NoKey EXCEPT !.upArrow = TRUE ],
      [ NoKey EXCEPT !.downArrow = TRUE ],
      [ NoKey EXCEPT !.leftArrow = TRUE ],
      [ NoKey EXCEPT !.rightArrow = TRUE ],
      [ NoKey EXCEPT !.upArrow = TRUE, !.downArrow = TRUE ],
      [ NoKey EXCEPT !.leftArrow = TRUE, !.rightArrow = TRUE ],
      [ NoKey EXCEPT !.escape = TRUE, !.rightArrow = TRUE ] }

HookKeys == { [ flags EXCEPT !.input = input ] :
                 flags \in HookFlags, input \in HookInputs }

\* the hook is rendered with any section as its currentSection prop
HookInit ==
    /\ InitManager
    /\ options = AppOptions
    /\ currentSection \in Range(sections)
    /\ pendingUpdates = << >>
    /\ exitStatus = "running"
    /\ lastKey = NoKey
    /\ sectionChanges = << >>
    /\ navRun = NoRun
    /\ InitAux

\* consecutive navigateToSection calls in one direction, counted up to a
\* full round of the section list
NavRun(run, direction, current) ==
    IF direction = "none"
    THEN NoRun
    ELSE IF run.direction = direction /\ run.count < Len(sections)
    THEN [ run EXCEPT !.count = @ + 1 ]
    ELSE [ start |-> current, direction |-> direction, count |-> 1 ]

\* one key event: the parent's onSectionChange is setCurrentSection, so the
\* hook is rendered again with the section of the last call
HookInput(key) ==
    LET r == handleInput(key.input, key, currentSection)
    IN  /\ exitStatus = "running"
        /\ lastKey' = key
        /\ sectionChanges' = r.calls
        /\ exitStatus' = IF r.exit THEN "exit(0)" ELSE exitStatus
        /\ currentSection' = IF r.calls = << >>
                              THEN currentSection
                              ELSE r.calls[Len(r.calls)]
        /\ navRun' = NavRun(navRun, r.direction, currentSection)
        /\ UNCHANGED << sessions, cleanupTimers, pendingTimers, isShuttingDown,
                        options, now, history, emitted, lastCall,
                        pendingUpdates, auxVars >>

HookNext == \E key \in HookKeys : HookInput(key)

HookSpec == HookInit /\ [][HookNext]_vars

\* ------------------- two sessions of a tracker that nobody subscribes to
VisitSections == { Undefined, "", "about", "skills" }
VisitIds == KnownIds \cup { "non-existent-session" }
VisitMaxSessionsChoices == { 5 }

\* createSession() and createSession('custom') have returned
VisitInit ==
    /\ options \in [ maxSessions : VisitMaxSessionsChoices,
                     sessionTimeout : SessionTimeoutChoices ]
    /\ LET m0 == [ sessions |-> << >>, cleanupTimers |-> << >>,
                   pendingTimers |-> {}, emitted |-> << >> ]
           m1 == createSession(m0, Undefined, Head(GeneratedIds), 0, 0, options)
           m2 == createSession([ m1 EXCEPT !.emitted = << >> ], "custom",
                               Undefined, 0, 0, options)
       IN  /\ sessions = m2.sessions
           /\ cleanupTimers = m2.cleanupTimers
           /\ pendingTimers = m2.pendingTimers
           /\ emitted = m2.emitted
    /\ lastCall = Call("createSession", "custom", "custom", NoSize, NoThrow)
    /\ isShuttingDown = FALSE
    /\ now = 0
    /\ history = << >>
    /\ InitApp

VisitNext ==
    \/ \E sessionId \in VisitIds, section \in VisitSections :
           UpdateActivity(sessionId, section) /\ UNCHANGED history
              /\ UNCHANGED appVars
    \/ \E sessionId \in VisitIds, size \in SizeInputs :
           UpdateTerminalSize(sessionId, size) /\ UNCHANGED history
              /\ UNCHANGED appVars
    \/ \E timer \in pendingTimers :
           SessionTimeoutFires(timer) /\ UNCHANGED history
              /\ UNCHANGED appVars
    \/ Tick /\ UNCHANGED appVars

VisitSpec == VisitInit /\ [][VisitNext]_vars

\* --------------------- sessions created with and without an id argument
CreateArguments == { Undefined, "", "custom" }
CreateGeneratedIds == << "session_1", "session_2" >>
CreateUpdateIds == { "custom" }

CreateNext ==
    \/ \E sessionId \in CreateArguments, skew \in ClockSkew :
           CreateSession(sessionId, CreateGeneratedIds, skew) /\ Subscribed
              /\ UNCHANGED appVars
    \/ \E sessionId \in CreateUpdateIds, size \in SizeInputs :
           UpdateTerminalSize(sessionId, size) /\ Subscribed
              /\ UNCHANGED appVars
    \/ TimeoutStep
    \/ Tick /\ UNCHANGED appVars

CreateSpec == Init /\ [][CreateNext]_vars

\* --------------------------------- the tracker filled to its session limit
CapGeneratedIds ==
    << "session_1", "session_2", "session_3", "session_4", "session_5",
       "session_6", "session_7", "session_8", "session_9", "session_10",
       "session_11" >>
CapExplicitIds == { "session_1" }
CapActivityIds == { "session_1" }
CapMaxSessionsChoices == { 10 }

CapInit ==
    /\ InitManager
    /\ InitApp
    /\ options \in [ maxSessions : CapMaxSessionsChoices,
                     sessionTimeout : SessionTimeoutChoices ]

CapNext ==
    \/ \E sessionId \in CapExplicitIds \cup {Undefined} :
           CreateSession(sessionId, CapGeneratedIds, 0) /\ Subscribed
              /\ UNCHANGED appVars
    \/ \E sessionId \in CapActivityIds :
           UpdateActivity(sessionId, Undefined) /\ Subscribed
              /\ UNCHANGED appVars
    \/ Tick /\ UNCHANGED appVars

CapSpec == CapInit /\ [][CapNext]_vars

\* ------------------------- the tracker's statistics, read between operations
StatsGeneratedIds == << "session_1", "session_2" >>

\* a subscriber registered with manager.on('sessionEnded', ...)
Tallied == completed' = Tally(completed, emitted')

GetStats ==
    /\ Commit(Manager,
              Call("getStats", Undefined, getStats(sessions), NoSize, NoThrow))
    /\ UNCHANGED << isShuttingDown, options, now >>

StatsInit ==
    /\ InitManager
    /\ InitApp
    /\ options \in [ maxSessions : VisitMaxSessionsChoices,
                     sessionTimeout : SessionTimeoutChoices ]

StatsNext ==
    \/ \E skew \in ClockSkew :
           CreateSession(Undefined, StatsGeneratedIds, skew) /\ Subscribed
              /\ Tallied
              /\ UNCHANGED << keyVars, globalSessionManager, resizeHook >>
    \/ \E sessionId \in Range(StatsGeneratedIds), reason \in EndReasons :
           EndSession(sessionId, reason) /\ Subscribed /\ Tallied
              /\ UNCHANGED << keyVars, globalSessionManager, resizeHook >>
    \/ \E timer \in pendingTimers :
           SessionTimeoutFires(timer) /\ Subscribed /\ Tallied
              /\ UNCHANGED << keyVars, globalSessionManager, resizeHook >>
    \/ GetStats /\ Subscribed /\ Tallied
          /\ UNCHANGED << keyVars, globalSessionManager, resizeHook >>
    \/ Tick /\ UNCHANGED appVars

StatsSpec == StatsInit /\ [][StatsNext]_vars

\* ------------------- two sessions that have visited sections, then getStats
TopVisits == { << >>, << "contact", "about" >>, sections }
TopSections == { "about", "contact" }

\* createSession() and createSession('custom') have returned and each
\* session has had updateActivity called with the sections of one list
TopInit ==
    /\ options \in [ maxSessions : VisitMaxSessionsChoices,
                     sessionTimeout : SessionTimeoutChoices ]
    /\ \E first \in TopVisits, second \in TopVisits :
         LET m0 == [ sessions |-> << >>, cleanupTimers |-> << >>,
                     pendingTimers |-> {}, emitted |-> << >> ]
             m1 == createSession(m0, Undefined, Head(GeneratedIds), 0, 0,
                                 options)
             m2 == createSession(m1, "custom", Undefined, 0, 0, options)
             m3 == UpdateActivities(m2, Head(GeneratedIds), first, 0, options)
             m4 == UpdateActivities(m3, "custom", second, 0, options)
         IN  /\ sessions = m4.sessions
             /\ cleanupTimers = m4.cleanupTimers
             /\ pendingTimers = m4.pendingTimers
    /\ emitted = << >>
    /\ lastCall = Call("createSession", "custom", "custom", NoSize, NoThrow)
    /\ isShuttingDown = FALSE
    /\ now = 0
    /\ history = << >>
    /\ InitApp

TopNext ==
    \/ \E sessionId \in KnownIds, section \in TopSections :
           UpdateActivity(sessionId, section) /\ UNCHANGED history
              /\ UNCHANGED appVars
    \/ \E timer \in pendingTimers :
           SessionTimeoutFires(timer) /\ UNCHANGED history
              /\ UNCHANGED appVars
    \/ GetStats /\ UNCHANGED history /\ UNCHANGED appVars
    \/ Tick /\ UNCHANGED appVars

TopSpec == TopInit /\ [][TopNext]_vars

\* ------------------------------------------ the module's global instance
GlobalOptions == [ maxSessions : { NoOption, 5, 50 },
                   sessionTimeout : { NoOption, 1000 } ]

GetSessionManager(opts) ==
    /\ globalSessionManager' = getSessionManager(globalSessionManager, opts)
    /\ lastCall' = Call("getSessionManager", Undefined,
                        [ options |-> opts, returned |-> globalSessionManager' ],
                        NoSize, NoThrow)
    /\ UNCHANGED << sessions, cleanupTimers, pendingTimers, isShuttingDown,
                    options, now, history, emitted, keyVars, completed,
                    resizeHook >>

InitializeSessionManager(opts) ==
    /\ globalSessionManager.instance < MaxInstances
    /\ globalSessionManager' =
           initializeSessionManager(globalSessionManager, opts)
    /\ lastCall' = Call("initializeSessionManager", Undefined,
                        [ options |-> opts, returned |-> globalSessionManager' ],
                        NoSize, NoThrow)
    /\ UNCHANGED << sessions, cleanupTimers, pendingTimers, isShuttingDown,
                    options, now, history, emitted, keyVars, completed,
                    resizeHook >>

GlobalNext ==
    \/ \E opts \in GlobalOptions : GetSessionManager(opts)
    \/ \E opts \in GlobalOptions : InitializeSessionManager(opts)

GlobalSpec == Init /\ [][GlobalNext]_vars

\* ================================================================ claims
Catalog == { "home", "about", "experience", "skills", "projects", "contact" }
CatalogOrder ==
    << "home", "about", "experience", "skills", "projects", "contact" >>
CatalogIndex(section) == CHOOSE i \in 1..6 : CatalogOrder[i] = section

RightArrow == [ NoKey EXCEPT !.rightArrow = TRUE ]
LeftArrow == [ NoKey EXCEPT !.leftArrow = TRUE ]
NextKeys == { RightArrow, Key("L") }
PrevKeys == { LeftArrow, Key("k") }

\* C1: after any sequence of key events from 'home' the current section is
\* one of the six catalog entries, its index is within 0..5, and so is every
\* section requested by a key event or waiting in the batched updater.
C1_SectionInCatalog ==
    /\ currentSection \in Catalog
    /\ indexOf(sections, currentSection) \in 0..5
    /\ \A i \in 1..Len(pendingUpdates) : pendingUpdates[i] \in Catalog
    /\ \A i \in 1..Len(sectionChanges) : sectionChanges[i] \in Catalog

\* a Next key pressed on contact has wrapped to home and has been rendered
C1_Witness ==
    /\ lastKey \in NextKeys
    /\ sectionChanges = << "home" >>
    /\ currentSection = "home"
    /\ pendingUpdates = << >>

C3_LifecycleOrder ==
    \A id \in DOMAIN history :
        LET h == history[id]
        IN  /\ h[1].type = "sessionCreated"
            /\ \A i \in 2..Len(h) : h[i].type # "sessionCreated"
            /\ \A i \in 1..(Len(h) - 1) : h[i].type # "sessionEnded"

\* C4: endSession on an active session emits one sessionEnded event with the
\* record, its endTime, the given reason and duration = endTime - startTime,
\* cancels the idle timer and removes the record; on an absent id it changes
\* nothing and emits nothing.
C4_EndSession ==
    [][ (lastCall'.op = "endSession"
            /\ EndSession(lastCall'.id, lastCall'.arg)) =>
          LET id == lastCall'.id
              reason == lastCall'.arg
          IN  IF HasSession(sessions, id)
              THEN LET old == sessions[IndexOfId(sessions, id)]
                   IN  /\ emitted' =
                             << [ type |-> "sessionEnded", id |-> id,
                                  session |-> [ old EXCEPT !.endTime = now ],
                                  reason |-> reason,
                                  duration |-> now - old.startTime ] >>
                       /\ old.endTime = NoTime
                       /\ ~HasSession(sessions', id)
                       /\ Len(sessions') = Len(sessions) - 1
                       /\ \A timer \in pendingTimers' : timer.id # id
                       /\ id \notin DOMAIN cleanupTimers'
              ELSE /\ UNCHANGED << sessions, cleanupTimers, pendingTimers,
                                   history, isShuttingDown >>
                   /\ emitted' = << >> ]_vars

\* a session that lived for a while has been ended with reason 'error'
C4_Witness ==
    /\ lastCall.op = "endSession"
    /\ Len(emitted) = 1
    /\ emitted[1].reason = "error"
    /\ emitted[1].duration > 0
    /\ emitted[1].session.terminalSize # NoSize

\* no activity for the configured timeout: the countdown has run out
Idle(id) ==
    /\ HasSession(sessions, id)
    /\ now >= sessions[IndexOfId(sessions, id)].lastActivity
                 + options.sessionTimeout

EndedByTimeout(id) ==
    /\ ~HasSession(sessions, id)
    /\ id \in DOMAIN history
    /\ history[id][Len(history[id])] =
          [ type |-> "sessionEnded", reason |-> "timeout" ]

\* C5: an active session that got no updateActivity or updateTerminalSize for
\* the timeout duration is eventually ended with reason 'timeout' and is then
\* absent from getSession, unless a new activity restarts its countdown.
C5_IdleTimeout ==
    \A id \in KnownIds :
        Idle(id) ~> (EndedByTimeout(id) \/ (HasSession(sessions, id) /\ ~Idle(id)))

\* a session has been ended by its idle timer
C5_Witness ==
    /\ lastCall.op = "timeout"
    /\ EndedByTimeout(lastCall.id)
    /\ emitted # << >>
    /\ emitted[1].reason = "timeout"

\* C6: every active session has exactly one pending timer, due a full timeout
\* after its latest activity, so a timer ends a session no earlier than that;
\* updateTerminalSize stores the size and emits one activity event.
C6_FreshCountdown ==
    /\ \A i \in 1..Len(sessions) :
          { timer \in pendingTimers : timer.id = sessions[i].id } =
             { [ id |-> sessions[i].id,
                 deadline |-> sessions[i].lastActivity + options.sessionTimeout ] }
    /\ (lastCall.op = "timeout" /\ emitted # << >>)
          => /\ Len(emitted) = 1
             /\ emitted[1].session.endTime >=
                   emitted[1].session.lastActivity + options.sessionTimeout
    /\ (lastCall.op \in { "updateActivity", "updateTerminalSize" }
           /\ emitted # << >>)
          => /\ Len(emitted) = 1
             /\ emitted[1].type = "sessionActivity"
             /\ emitted[1].id = lastCall.id
             /\ HasSession(sessions, lastCall.id)
                   => /\ sessions[IndexOfId(sessions, lastCall.id)] =
                            emitted[1].session
                      /\ lastCall.op = "updateTerminalSize"
                            => emitted[1].session.terminalSize = lastCall.size

\* a timer that a resize had restarted has later ended its session
C6_Witness ==
    /\ lastCall.op = "timeout"
    /\ emitted # << >>
    /\ emitted[1].session.terminalSize # NoSize
    /\ emitted[1].session.lastActivity > emitted[1].session.startTime
    /\ emitted[1].session.endTime = MaxTime

EndedByShutdown(session, t) ==
    [ type |-> "sessionEnded", id |-> session.id,
      session |-> [ session EXCEPT !.endTime = t ],
      reason |-> "shutdown", duration |-> t - session.startTime ]

\* C7: shutdown emits one sessionEnded event with reason 'shutdown' per active
\* session and raises nothing; from then on there are no active sessions and
\* no pending timers, so no timer ends a session and a second shutdown ends
\* none.
C7_Shutdown ==
    /\ [][ Shutdown =>
             /\ lastCall'.threw = NoThrow
             /\ Len(emitted') = Len(sessions) + 1
             /\ \A i \in 1..Len(sessions) :
                   emitted'[i] = EndedByShutdown(sessions[i], now)
             /\ emitted'[Len(emitted')].type = "shutdown" ]_vars
    /\ [](isShuttingDown =>
             /\ sessions = << >>
             /\ pendingTimers = {}
             /\ cleanupTimers = << >>
             /\ lastCall.op # "timeout")

\* shutdown has ended two sessions
C7_Witness ==
    /\ lastCall.op = "shutdown"
    /\ Len(emitted) = 3
    /\ emitted[1].reason = "shutdown"
    /\ emitted[2].reason = "shutdown"

\* C8: once shutdown has been called the flag stays set, and every later
\* createSession throws 'Session manager is shutting down', adds no record,
\* schedules no timer and emits no event.
C8_CreateAfterShutdown ==
    [][ isShuttingDown =>
          /\ isShuttingDown'
          /\ \A sessionId \in ExplicitIds \cup {Undefined}, skew \in ClockSkew :
                CreateSession(sessionId, GeneratedIds, skew) =>
                   /\ lastCall'.threw = "Session manager is shutting down"
                   /\ emitted' = << >>
                   /\ UNCHANGED << sessions, cleanupTimers, pendingTimers,
                                   history >> ]_vars

\* createSession has been refused after a shutdown that ended a session
C8_Witness ==
    /\ isShuttingDown
    /\ lastCall.op = "createSession"
    /\ lastCall.threw = "Session manager is shutting down"
    /\ history # << >>

\* C9: createSession at the session limit never throws: it first ends the
\* floor(maxSessions / 10) least recently active sessions, oldest first, each
\* with reason 'timeout', and only then creates and announces the new one.
C9_EvictThenCreate ==
    [][ \A sessionId \in CapExplicitIds \cup {Undefined} :
          (CreateSession(sessionId, CapGeneratedIds, 0)
              /\ Len(sessions) >= options.maxSessions)
          => LET count == options.maxSessions \div 10
                 newId == lastCall'.arg
                 victims == { emitted'[i].id : i \in 1..count }
             IN  /\ lastCall'.threw = NoThrow
                 /\ Len(emitted') = count + 1
                 /\ Cardinality(victims) = count
                 /\ \A i \in 1..count :
                       /\ emitted'[i].type = "sessionEnded"
                       /\ emitted'[i].reason = "timeout"
                       /\ HasSession(sessions, emitted'[i].id)
                       /\ \A j \in 1..Len(sessions) :
                             sessions[j].id \notin victims
                                => emitted'[i].session.lastActivity
                                      <= sessions[j].lastActivity
                       /\ \A j \in 1..(i - 1) :
                             emitted'[j].session.lastActivity
                                <= emitted'[i].session.lastActivity
                       /\ emitted'[i].id # newId
                             => ~HasSession(sessions', emitted'[i].id)
                 /\ emitted'[count + 1].type = "sessionCreated"
                 /\ emitted'[count + 1].id = newId
                 /\ HasSession(sessions', newId) ]_vars

\* at the limit the session evicted was not the first one created, because
\* that one had been active more recently
C9_Witness ==
    /\ lastCall.op = "createSession"
    /\ Len(emitted) = 2
    /\ emitted[1].type = "sessionEnded"
    /\ emitted[1].reason = "timeout"
    /\ emitted[1].id # "session_1"
    /\ HasSession(sessions, "session_1")
    /\ emitted[2].type = "sessionCreated"

\* C10: the number of active sessions never exceeds the configured maximum.
C10_MaxSessionsEnforced == Len(sessions) <= options.maxSessions

\* ----------------------------------------------------- the key decoder
Digits == { "1", "2", "3", "4", "5", "6" }

Exits(key) ==
    key.escape \/ key.input = "q" \/ (key.ctrl /\ key.input = "c")

\* the rule of the priority list that a key event matches first
Intent(key) ==
    IF Exits(key) THEN "Exit"
    ELSE IF key.input \in Digits THEN "GoTo"
    ELSE IF key.upArrow \/ key.leftArrow THEN "Previous"
    ELSE IF key.downArrow \/ key.rightArrow THEN "Next"
    ELSE IF key.input \in { "h", "H", "k", "K" } THEN "Previous"
    ELSE IF key.input \in { "l", "L", "j", "J" } THEN "Next"
    ELSE "Other"

\* the catalog entry of a digit key
DigitTarget(input) ==
    CatalogOrder[CHOOSE d \in 1..6 :
                    << "1", "2", "3", "4", "5", "6" >>[d] = input]

\* the catalog entry k places after a section, around the ring
Around(section, k) ==
    CatalogOrder[((CatalogIndex(section) - 1 + k) % 6) + 1]

\* C11: a key event is decoded by the first rule it matches, in the order
\* exit, digit, up/left arrow, down/right arrow, vim letter in either case,
\* and it results in one intent only: the exit, or at most one call of the
\* section-change callback.
C11_DecoderPriority ==
    [][ HookInput(lastKey') =>
          LET key == lastKey'
              intent == Intent(key)
              exited == exitStatus' = "exit(0)"
          IN  /\ exited <=> intent = "Exit"
              /\ intent = "Exit" => sectionChanges' = << >>
              /\ intent = "GoTo" =>
                    sectionChanges' =
                       IF DigitTarget(key.input) = currentSection
                       THEN << >>
                       ELSE << DigitTarget(key.input) >>
              /\ intent = "Previous" =>
                    sectionChanges' = << Around(currentSection, 5) >>
              /\ intent = "Next" =>
                    sectionChanges' = << Around(currentSection, 1) >>
              /\ Len(sectionChanges') + (IF exited THEN 1 ELSE 0) <= 1 ]_vars

GoToTarget(key) ==
    IF Exits(key) THEN Undefined
    ELSE IF key.input \in Digits THEN DigitTarget(key.input)
    ELSE IF key = Key("g") THEN "home"
    ELSE Undefined

AfterCapitalG ==
    /\ lastKey = Key("G")
    /\ pendingUpdates = << >>

\* the queue of state updates holds the calls of a 'G' key event and no other
CapitalGQueued ==
    /\ lastKey = Key("G")
    /\ pendingUpdates = sectionChanges

C15_CapitalGLast ==
    [][ (FlushUpdates /\ CapitalGQueued) => currentSection' = "contact" ]_vars

\* C16: a key event is an exit exactly when it has the escape flag, or input
\* 'q', or the ctrl flag with input 'c'; the exit ends the App's session with
\* reason 'manual' and then ends the process with status 0, without any
\* section-change callback or state update; nothing runs afterwards.
C16_Exit ==
    /\ [][ KeyPress(lastKey') =>
             /\ exitStatus' = IF Exits(lastKey') THEN "exit(0)" ELSE "running"
             /\ Exits(lastKey') =>
                   /\ sectionChanges' = << >>
                   /\ UNCHANGED << pendingUpdates, currentSection >>
                   /\ HasSession(sessions, AppSessionId)
                   /\ sessions' = << >>
                   /\ pendingTimers' = {}
                   /\ Len(emitted') = 1
                   /\ emitted'[1].type = "sessionEnded"
                   /\ emitted'[1].id = AppSessionId
                   /\ emitted'[1].reason = "manual" ]_vars
    /\ [][ exitStatus # "running" => UNCHANGED vars ]_vars

\* the escape key has ended a session that had visited two sections
C16_Witness ==
    /\ exitStatus = "exit(0)"
    /\ lastKey.escape
    /\ sessions = << >>
    /\ Len(emitted) = 1
    /\ emitted[1].reason = "manual"
    /\ Len(emitted[1].session.sectionsVisited) = 2

NoDuplicates(seq) ==
    \A i, j \in 1..Len(seq) : seq[i] = seq[j] => i = j

\* C18: the sectionsVisited list of every active session holds no section
\* twice; updateActivity with a section not yet in the list appends it at the
\* end, so the list is in order of first visit, and with a section already
\* listed, or with no section, it leaves the list as it was; the lists of the
\* other sessions are never touched.
C18_SectionsVisited ==
    /\ [](\A i \in 1..Len(sessions) : NoDuplicates(sessions[i].sectionsVisited))
    /\ [][ (lastCall'.op = "updateActivity"
               /\ UpdateActivity(lastCall'.id, lastCall'.arg)
               /\ HasSession(sessions, lastCall'.id)) =>
             LET id == lastCall'.id
                 section == lastCall'.arg
                 old == sessions[IndexOfId(sessions, id)].sectionsVisited
             IN  /\ HasSession(sessions', id)
                 /\ sessions'[IndexOfId(sessions', id)].sectionsVisited =
                       IF section \in { Undefined, "" }
                          \/ \E i \in 1..Len(old) : old[i] = section
                       THEN old
                       ELSE Append(old, section)
                 /\ \A i \in 1..Len(sessions) :
                       sessions[i].id # id => sessions'[i] = sessions[i] ]_vars

\* skills, then about, then skills again: the second visit of skills has
\* changed nothing in the list
C18_Witness ==
    /\ lastCall.op = "updateActivity"
    /\ lastCall.arg = "skills"
    /\ HasSession(sessions, lastCall.id)
    /\ sessions[IndexOfId(sessions, lastCall.id)].sectionsVisited =
          << "skills", "about" >>

\* C19: updateActivity and updateTerminalSize with an id that has no active
\* session, because it was never created or has ended, return without an
\* exception, emit nothing, create no record and leave every record and
\* every timer as it was.
C19_UnknownSession ==
    [][ (~HasSession(sessions, lastCall'.id)
           /\ \/ /\ lastCall'.op = "updateActivity"
                 /\ UpdateActivity(lastCall'.id, lastCall'.arg)
              \/ /\ lastCall'.op = "updateTerminalSize"
                 /\ UpdateTerminalSize(lastCall'.id, lastCall'.size)) =>
          /\ lastCall'.threw = NoThrow
          /\ emitted' = << >>
          /\ UNCHANGED << sessions, cleanupTimers, pendingTimers,
                          isShuttingDown >> ]_vars

\* a resize has been reported for a session that its idle timer had ended,
\* while the other session is still active with its visits and its timer
C19_Witness ==
    /\ lastCall.op = "updateTerminalSize"
    /\ lastCall.id = "custom"
    /\ ~HasSession(sessions, "custom")
    /\ emitted = << >>
    /\ Len(sessions) = 1
    /\ sessions[1].sectionsVisited # << >>
    /\ pendingTimers # {}

\* createSession has just returned an id (in lastCall'.arg)
Created ==
    /\ lastCall'.op = "createSession"
    /\ lastCall'.threw = NoThrow
    /\ \E skew \in ClockSkew :
          CreateSession(lastCall'.id, CreateGeneratedIds, skew)

\* getSession(id) called right after createSession has returned id
CreatedRecord == getSession([ sessions |-> sessions' ], lastCall'.arg)

\* C20 as stated: the record read back right after createSession has the
\* returned id, no visited section, no endTime, no terminalSize and
\* lastActivity equal to startTime, and an id argument is returned as it is.
C20_RoundTrip ==
    [][ Created =>
          /\ CreatedRecord.id = lastCall'.arg
          /\ CreatedRecord.sectionsVisited = << >>
          /\ CreatedRecord.endTime = NoTime
          /\ CreatedRecord.terminalSize = NoSize
          /\ CreatedRecord.lastActivity = CreatedRecord.startTime
          /\ lastCall'.id # Undefined => lastCall'.arg = lastCall'.id ]_vars

\* C20: the record read back right after createSession has the returned id,
\* no visited section, no endTime and no terminalSize; startTime is the clock
\* when createSession was called and lastActivity the clock at its second
\* read, so lastActivity is never before startTime and equals it when the
\* clock did not advance in between; a non-empty id argument is returned as
\* it is, and without one, or with the empty string, the id is a new one.
C20_RoundTripClock ==
    [][ Created =>
          /\ CreatedRecord.id = lastCall'.arg
          /\ CreatedRecord.sectionsVisited = << >>
          /\ CreatedRecord.endTime = NoTime
          /\ CreatedRecord.terminalSize = NoSize
          /\ CreatedRecord.startTime = now
          /\ CreatedRecord.lastActivity = now'
          /\ CreatedRecord.lastActivity >= CreatedRecord.startTime
          /\ IF lastCall'.id \in { Undefined, "" }
             THEN /\ lastCall'.arg \in Range(CreateGeneratedIds)
                  /\ lastCall'.arg \notin DOMAIN history
             ELSE lastCall'.arg = lastCall'.id ]_vars

\* createSession('custom') has returned 'custom' next to a session with a
\* generated id, and the clock advanced between the two reads of its record
C20_Witness ==
    /\ lastCall.op = "createSession"
    /\ lastCall.id = "custom"
    /\ lastCall.arg = "custom"
    /\ Len(sessions) = 2
    /\ sessions[1].id = "session_1"
    /\ sessions[2].id = "custom"
    /\ sessions[2].startTime > 0
    /\ sessions[2].lastActivity = sessions[2].startTime + 1

\* ------------------------------------------------------------------- C21
\* C21: getStats().totalSessions is the number of sessions the tracker has
\* seen in the process, ended ones included, and activeSessions is the
\* number of sessions that are active.
C21_TotalSessions ==
    lastCall.op = "getStats" =>
        /\ lastCall.arg.totalSessions = Cardinality(DOMAIN history)
        /\ lastCall.arg.activeSessions = Len(sessions)

\* ------------------------------------------------------------------- C22
\* C22: getStats().averageSessionDuration is the mean, rounded to whole
\* seconds, of endTime - startTime over the sessions that have ended, and 0
\* when none has ended.
C22_AverageDuration ==
    lastCall.op = "getStats" =>
        lastCall.arg.averageSessionDuration =
            IF completed.count = 0
            THEN 0
            ELSE Round(completed.sum, completed.count * 1000)

\* ------------------------------------------------------------------- C23
\* the number of sessions the tracker holds that have visited a section
Visitors(seq, section) ==
    Cardinality({ i \in 1..Len(seq) :
                    Includes(seq[i].sectionsVisited, section) })

Visited(seq) == UNION { Range(seq[i].sectionsVisited) : i \in 1..Len(seq) }

\* the list names each section once with the number of sessions that have
\* visited it, in descending order of that number, and holds the five most
\* visited sections or all of them when fewer have been visited
Listing(top, seq) ==
    /\ \A i \in 1..Len(top) : top[i].count = Visitors(seq, top[i].section)
    /\ \A i, j \in 1..Len(top) : i < j => top[i].count >= top[j].count
    /\ \A i, j \in 1..Len(top) : i # j => top[i].section # top[j].section
    /\ Len(top) <= 5
    /\ Len(top) < 5 => { top[i].section : i \in 1..Len(top) } = Visited(seq)
    /\ \A section \in Visited(seq) \ { top[i].section : i \in 1..Len(top) } :
           Visitors(seq, section) <= top[Len(top)].count

\* updateActivity with a section its session has visited before
Revisit ==
    /\ UpdateActivity(lastCall'.id, lastCall'.arg)
    /\ Includes(getSession(Manager, lastCall'.id).sectionsVisited,
                lastCall'.arg)

\* C23: in getStats().mostVisitedSections the count of a section is the
\* number of sessions whose sectionsVisited contains it, the list is in
\* descending order of count and has at most five entries; an updateActivity
\* call with a section its session has visited already changes no count.
C23_MostVisited ==
    [][ /\ lastCall'.op = "getStats" =>
              Listing(lastCall'.arg.mostVisitedSections, sessions')
        /\ Revisit =>
              getStats(sessions').mostVisitedSections
                  = getStats(sessions).mostVisitedSections ]_vars

\* getStats has returned five of six visited sections, led by a section two
\* sessions have visited that was not the first one visited
C23_Witness ==
    /\ lastCall.op = "getStats"
    /\ Len(lastCall.arg.mostVisitedSections) = 5
    /\ Cardinality(Visited(sessions)) = 6
    /\ lastCall.arg.mostVisitedSections[1].count = 2
    /\ lastCall.arg.mostVisitedSections[1].section
           # Head(AllVisits(sessions))

\* ------------------------------------------------------------------- C24
\* C24: getSessionManager() constructs the global instance on its first call
\* and returns that same instance, with the options it was constructed with,
\* on every later call whatever options are passed;
\* initializeSessionManager() installs and returns an instance that was not
\* installed before, built from the options passed to it.
C24_GlobalInstance ==
    [][ /\ (lastCall'.op = "getSessionManager"
               /\ GetSessionManager(lastCall'.arg.options)) =>
              /\ lastCall'.arg.returned = globalSessionManager'
              /\ globalSessionManager # NoManager =>
                     globalSessionManager' = globalSessionManager
              /\ globalSessionManager = NoManager =>
                     globalSessionManager' =
                         NewSessionManager(lastCall'.arg.options, 1)
        /\ (lastCall'.op = "initializeSessionManager"
               /\ InitializeSessionManager(lastCall'.arg.options)) =>
              /\ lastCall'.arg.returned = globalSessionManager'
              /\ globalSessionManager'.instance > globalSessionManager.instance
              /\ globalSessionManager'.options =
                     NewSessionManager(lastCall'.arg.options, 0).options
      ]_vars

\* getSessionManager was called with other options than those of the
\* instance initializeSessionManager installed over an earlier one
C24_Witness ==
    /\ lastCall.op = "getSessionManager"
    /\ globalSessionManager.instance = 2
    /\ lastCall.arg.returned = globalSessionManager
    /\ lastCall.arg.options.maxSessions
           \notin { NoOption, globalSessionManager.options.maxSessions }

Unmatched(key) == Intent(key) = "Other" /\ key.input \notin { "g", "G" }

\* C26: a key event that matches none of the rules is ignored: the handler
\* returns, calls neither the section-change callback nor the exit callback,
\* and leaves the current section, the pending section updates, the session
\* record and its idle timer as they were.
C26_Ignored ==
    [][ (KeyPress(lastKey') /\ Unmatched(lastKey')) =>
          /\ sectionChanges' = << >>
          /\ exitStatus' = "running"
          /\ emitted' = << >>
          /\ UNCHANGED << currentSection, pendingUpdates, sessions,
                          cleanupTimers, pendingTimers, lastCall >> ]_vars

\* Ctrl+Q was pressed on experience while the update to skills was waiting
\* for its batch, and nothing happened
C26_Witness ==
    /\ lastKey = [ NoKey EXCEPT !.ctrl = TRUE, !.input = "Q" ]
    /\ currentSection = "experience"
    /\ pendingUpdates = << "skills" >>
    /\ sectionChanges = << >>
    /\ exitStatus = "running"
    /\ getSession(Manager, AppSessionId).sectionsVisited
           = << "about", "experience", "skills" >>

\* ------------------------------------------------------------------- C27
\* the section the App shows once the updates queued so far are applied
Settled(current, updates) == flushUpdates(current, updates)

\* C27: every Next key event moves the section the App settles on one place
\* forward around the catalog, also when it arrives while the update of an
\* earlier key event is still waiting for the batch to be flushed.
C27_NextKeysAdvance ==
    [][ (KeyPress(lastKey') /\ lastKey' \in NextKeys) =>
          Settled(currentSection, pendingUpdates')
              = Around(Settled(currentSection, pendingUpdates), 1) ]_vars

\* ------------------------------------------------------------------- C28
\* the sections of the second list that the first does not have
Added(before, after) ==
    SelectSeq(after, LAMBDA section : ~Includes(before, section))

\* C28: a key event calls the section-change callback at most once, and the
\* session's sectionsVisited gains at most one section by it, which is the
\* section the App settles on.
C28_OneCallPerKey ==
    [][ (KeyPress(lastKey') /\ HasSession(sessions', AppSessionId)) =>
          LET before == getSession(Manager, AppSessionId).sectionsVisited
              after == sessions'[IndexOfId(sessions', AppSessionId)]
                          .sectionsVisited
          IN  /\ Len(sectionChanges') <= 1
              /\ Len(Added(before, after)) <= 1
              /\ \A i \in 1..Len(Added(before, after)) :
                     Added(before, after)[i]
                         = Settled(currentSection, pendingUpdates') ]_vars

\* ------------------------------------------------------------------- C29
ActiveIds == { sessions[i].id : i \in 1..Len(sessions) }

\* C29: between operations the ids that have a pending idle timer are the ids
\* of the active sessions, each active session has one pending timer, the one
\* cleanupTimers holds for it, and no other id has a timer.
C29_TimersMatchSessions ==
    /\ { timer.id : timer \in pendingTimers } = ActiveIds
    /\ \A id \in ActiveIds :
           Cardinality({ timer \in pendingTimers : timer.id = id }) = 1
    /\ DOMAIN cleanupTimers = ActiveIds
    /\ \A id \in ActiveIds : cleanupTimers[id] \in pendingTimers

\* one session has ended and has no timer, while the other is active with a
\* timer that an operation after its creation has restarted
C29_Witness ==
    /\ "custom" \in DOMAIN history
    /\ history["custom"][Len(history["custom"])].type = "sessionEnded"
    /\ ActiveIds = { "session_1" }
    /\ \E timer \in pendingTimers :
           /\ timer.id = "session_1"
           /\ timer.deadline
                  > getSession(Manager, "session_1").startTime
                    + options.sessionTimeout

\* ------------------------------------------------------------------- C30
\* C30: after a resize event the debounced update eventually runs: isResizing
\* is false again and dimensions are the validated size of the terminal,
\* also when the App renders between the event and the expiry of the timer.
C30_DebouncedUpdateRuns ==
    resizeHook.isResizing ~>
        (/\ ~resizeHook.isResizing
         /\ resizeHook.dimensions
                = validateTerminalDimensions(resizeHook.stdout))

====
